---- MODULE Spec2Model ----
(***************************************************************************)
(* Faculty allocation dashboard (src/app.py): the three table transforms   *)
(* identify_faculty_columns, distribute_students and                       *)
(* summarize_faculty_preferences, applied to an uploaded table df.         *)
(*                                                                         *)
(* A table (pandas DataFrame) is a record                                  *)
(*     [columns : sequence of column names,                                *)
(*      index   : sequence of row labels,                                  *)
(*      rows    : sequence of rows, each a function column name -> cell]   *)
(* and a cell is a record [kind, num, text]:                               *)
(*     kind "int"   : the integer num                                      *)
(*     kind "float" : the number num/10 (num counts tenths)                *)
(*     kind "nan"   : a missing value (float NaN)                          *)
(*     kind "str"   : the text text, the sequence of its characters, each  *)
(*                    its Unicode code point ('a' is 97, '1' is 49)        *)
(* A call ends in a record [status, value, ...]: status "ok" with the      *)
(* returned value, or the name of the exception that left the function.    *)
(* The warnings a call logs (logger.warning) are kept in its result.       *)
(*                                                                         *)
(* The three functions are the operations: each is applied once to the     *)
(* uploaded table, in any order; the dashboard's own order (distribute,    *)
(* summarize, identify) is one of them. CGPA cells are numbers (integers   *)
(* here); column names are unique, as pd.read_csv makes them.              *)
(***************************************************************************)
EXTENDS Integers, Sequences, FiniteSets, TLC

VARIABLES df, faculty_cols, allocation_df, summary_df

vars == <<df, faculty_cols, allocation_df, summary_df>>

(* ------------------------------ bounds -------------------------------- *)

\* Most rows of a table the allocator is run on.
MaxRows == 4
\* CGPA values are 1..MaxCGPA.
MaxCGPA == 3
\* Most rows of a table whose rank cells are enumerated.
MaxPrefRows == 2
\* Names of the faculty columns, in schema order.
FacultyPool == <<"A", "B", "C">>
\* How many of them a table with enumerated rank cells has at most.
PrefFaculties == 0..2

(* ------------------------------- cells -------------------------------- *)

IntCell(n) == [kind |-> "int", num |-> n, text |-> <<>>]
FloatCell(tenths) == [kind |-> "float", num |-> tenths, text |-> <<>>]
StrCell(s) == [kind |-> "str", num |-> 0, text |-> s]
NaNCell == [kind |-> "nan", num |-> 0, text |-> <<>>]

\* The texts of the rank cells: 'abc', '1' followed by a no-break space
\* (U+00A0), ' 2', '-1', '4', '1.5'.
TxtAbc == <<97, 98, 99>>
TxtOneNbsp == <<49, 160>>
TxtBlankTwo == <<32, 50>>
TxtMinusOne == <<45, 49>>
TxtFour == <<52>>
TxtOnePointFive == <<49, 46, 53>>

\* The cells of a rank column, by the dtype pd.read_csv gives the column:
\* int64 (every cell an integer), float64 (a fraction or a missing cell
\* among them), object (some cell is no number: each cell is its text, or
\* NaN where the cell is missing).
RankColumnCells ==
    { {IntCell(0), IntCell(1), IntCell(2)},
      {FloatCell(15), FloatCell(20), NaNCell},
      {StrCell(TxtAbc), StrCell(TxtOneNbsp), StrCell(TxtBlankTwo),
       StrCell(TxtMinusOne), StrCell(TxtFour), StrCell(TxtOnePointFive),
       NaNCell} }

Range(s) == {s[i] : i \in 1..Len(s)}

Raise(exc) == [status |-> exc]
NotCalled == [status |-> "none"]

(* ------------------------- pandas / Python ---------------------------- *)

\* The characters int() strips from both ends of a text: tab, line feed,
\* vertical tab, form feed, carriage return and space, and beyond ASCII
\* the Unicode blanks U+0085, U+00A0, U+1680, U+2000..U+200A, U+2028,
\* U+2029, U+202F, U+205F and U+3000.
Whitespace ==
    (9..13) \cup {32, 133, 160, 5760} \cup (8192..8202)
        \cup {8232, 8233, 8239, 8287, 12288}

\* The text without its leading blanks.
lstrip(s) ==
    LET kept == {i \in 1..Len(s) : s[i] \notin Whitespace}
    IN  IF kept = {} THEN <<>>
        ELSE SubSeq(s, CHOOSE i \in kept : \A j \in kept : i <= j, Len(s))

\* The text without its trailing blanks.
rstrip(s) ==
    LET kept == {i \in 1..Len(s) : s[i] \notin Whitespace}
    IN  IF kept = {} THEN <<>>
        ELSE SubSeq(s, 1, CHOOSE i \in kept : \A j \in kept : j <= i)

\* The digit zero of every script with decimal digits (Unicode 14: '0' is
\* 48, the Arabic-Indic zero 1632, the fullwidth zero 65296, ...); the
\* digits 1..9 of a script follow its zero.
DigitZeros ==
    {48, 1632, 1776, 1984, 2406, 2534, 2662, 2790, 2918, 3046, 3174, 3302,
     3430, 3558, 3664, 3792, 3872, 4160, 4240, 6112, 6160, 6470, 6608, 6784,
     6800, 6992, 7088, 7232, 7248, 42528, 43216, 43264, 43472, 43504, 43600,
     44016, 65296, 66720, 68912, 69734, 69872, 69942, 70096, 70384, 70736,
     70864, 71248, 71360, 71472, 71904, 72016, 72784, 73040, 73120, 92768,
     92864, 93008, 120782, 120792, 120802, 120812, 120822, 123200, 123632,
     125264, 130032}

IsDigit(c) == \E z \in DigitZeros : z <= c /\ c <= z + 9
DigitValue(c) == c - (CHOOSE z \in DigitZeros : z <= c /\ c <= z + 9)

\* sys.get_int_max_str_digits(): the most digits int() converts from text.
MaxStrDigits == 4300

\* The digits of a text, as int() counts them against the limit: leading
\* zeros count, underscores, blanks and the sign do not.
DigitCount(s) == Len(SelectSeq(s, IsDigit))

\* The value of a run of digits: at least one digit, single underscores (95)
\* only between digits, and no more than MaxStrDigits digits; anything else
\* raises ValueError. Leading zeros add nothing to the value, so it is
\* accumulated from the first non-zero digit on.
digits_value(s) ==
    LET d == SelectSeq(s, IsDigit)
        well_formed ==
            /\ s # <<>>
            /\ IsDigit(s[1]) /\ IsDigit(s[Len(s)])
            /\ \A i \in 1..Len(s) : IsDigit(s[i]) \/ s[i] = 95
            /\ \A i \in 1..(Len(s) - 1) : ~(s[i] = 95 /\ s[i + 1] = 95)
        nonzero == {i \in 1..Len(d) : DigitValue(d[i]) # 0}
        first == IF nonzero = {} THEN Len(d) + 1
                 ELSE CHOOSE i \in nonzero : \A j \in nonzero : i <= j
        RECURSIVE value(_, _)
        value(i, acc) ==
            IF i > Len(d) THEN acc
            ELSE value(i + 1, 10 * acc + DigitValue(d[i]))
    IN  IF ~well_formed \/ DigitCount(s) > MaxStrDigits
            THEN Raise("ValueError")
        ELSE [status |-> "ok", value |-> value(first, 0)]

\* int(text), base 10: blanks stripped from both ends, an optional sign
\* ('+' is 43, '-' is 45), then a run of digits within the digit limit;
\* anything else raises ValueError.
int_of_text(text) ==
    LET s == rstrip(lstrip(text))
        signed == s # <<>> /\ Head(s) \in {43, 45}
        digits == digits_value(IF signed THEN Tail(s) ELSE s)
    IN  IF digits.status # "ok" THEN digits
        ELSE [status |-> "ok",
              value |-> IF signed /\ Head(s) = 45 THEN -digits.value
                        ELSE digits.value]

\* Python's int(x): an int is itself, a float is truncated toward zero,
\* text is parsed, NaN raises ValueError.
python_int(cell) ==
    CASE cell.kind = "int" -> [status |-> "ok", value |-> cell.num]
      [] cell.kind = "float" ->
            [status |-> "ok",
             value |-> IF cell.num >= 0 THEN cell.num \div 10
                       ELSE -((-cell.num) \div 10)]
      [] cell.kind = "str" -> int_of_text(cell.text)
      [] OTHER -> Raise("ValueError")

\* Index.get_loc: the 0-based position of a column name (names are unique).
get_loc(columns, name) == (CHOOSE i \in 1..Len(columns) : columns[i] = name) - 1

\* The orders of the rows `left` by their key: p[i] is the input position of
\* the row that comes i-th. Rows of equal key come in any order.
RECURSIVE key_orders(_, _, _, _)
key_orders(rows, by, ascending, left) ==
    IF left = {} THEN {<<>>}
    ELSE UNION {{<<k>> \o rest : rest \in key_orders(rows, by, ascending, left \ {k})} :
                   k \in {k \in left :
                             \A m \in left :
                                 IF ascending THEN rows[k][by].num <= rows[m][by].num
                                 ELSE rows[k][by].num >= rows[m][by].num}}

\* ascending=True, pandas' default, in place of ascending=False.
ascending_orders(rows, by) == key_orders(rows, by, TRUE, 1..Len(rows))

\* The orders DataFrame.sort_values(by, ascending=False) may return under its
\* default kind='quicksort': descending in the key, and, the algorithm not
\* being stable, rows of equal key in any order.
descending_orders(rows, by) == key_orders(rows, by, FALSE, 1..Len(rows))

\* table.sort_values(by=..., ascending=False): KeyError for a missing column,
\* else the table in one of the orders above, each row keeping its label.
sort_values(table, by) ==
    IF by \notin Range(table.columns) THEN {Raise("KeyError")}
    ELSE {[status |-> "ok",
           value |-> [columns |-> table.columns,
                      index |-> [i \in 1..Len(table.rows) |-> table.index[p[i]]],
                      rows |-> [i \in 1..Len(table.rows) |-> table.rows[p[i]]]]] :
            p \in descending_orders(table.rows, by)}

\* The call to reset_index left out: every row keeps its input label.
reset_index_omitted(table) == table

\* table.reset_index(drop=True): the labels become 0..N-1.
reset_index(table) ==
    [table EXCEPT !.index = [i \in 1..Len(table.rows) |-> i - 1]]

(* --------------------- identify_faculty_columns ----------------------- *)

\* A lookup that answers -1 for a missing column instead of raising.
identify_faculty_columns_find(table, ref_col) ==
    LET index_pos == IF ref_col \in Range(table.columns)
                         THEN get_loc(table.columns, ref_col) ELSE -1
    IN  [status |-> "ok",
         value |-> SubSeq(table.columns, index_pos + 2, Len(table.columns))]

\* The slice taken from index_pos instead of index_pos + 1.
identify_faculty_columns_from_ref(table, ref_col) ==
    IF ref_col \notin Range(table.columns) THEN Raise("KeyError")
    ELSE LET index_pos == get_loc(table.columns, ref_col)
         IN  [status |-> "ok",
              value |-> SubSeq(table.columns, index_pos + 1, Len(table.columns))]

identify_faculty_columns(table, ref_col) ==
    IF ref_col \notin Range(table.columns) THEN Raise("KeyError")
    ELSE LET index_pos == get_loc(table.columns, ref_col)
         IN  [status |-> "ok",
              value |-> SubSeq(table.columns, index_pos + 2, Len(table.columns))]

(* ------------------------ distribute_students ------------------------- *)

\* min(idx, len(faculties) - 1) in place of idx % len(faculties).
faculty_at_clamped(faculties, idx) ==
    IF Len(faculties) = 0 THEN Raise("ZeroDivisionError")
    ELSE [status |-> "ok",
          value |-> faculties[(IF idx < Len(faculties) THEN idx
                               ELSE Len(faculties) - 1) + 1]]

\* faculties[idx % len(faculties)]
faculty_at(faculties, idx) ==
    IF Len(faculties) = 0 THEN Raise("ZeroDivisionError")
    ELSE [status |-> "ok", value |-> faculties[(idx % Len(faculties)) + 1]]

\* The loop over sorted_df.iterrows(), from row i on; processed counts the
\* rows whose record was appended.
RECURSIVE allocate_rows(_, _, _, _, _)
allocate_rows(sorted_df, faculties, cgpa_field, i, allocations) ==
    IF i > Len(sorted_df.rows)
        THEN [status |-> "ok", value |-> allocations, processed |-> i - 1]
    ELSE LET idx == sorted_df.index[i]
             row == sorted_df.rows[i]
             faculty == faculty_at(faculties, idx)
         IN  IF faculty.status # "ok"
                 THEN [status |-> faculty.status, processed |-> i - 1]
             ELSE allocate_rows(sorted_df, faculties, cgpa_field, i + 1,
                      Append(allocations,
                             [Roll |-> row["Roll"],
                              Name |-> row["Name"],
                              Email |-> row["Email"],
                              CGPA |-> row[cgpa_field],
                              AssignedFaculty |-> faculty.value]))

\* distribute_students once sort_values has returned `sorted`.
distribute_sorted(sorted, cgpa_field) ==
    IF sorted.status # "ok" THEN [status |-> sorted.status, processed |-> 0]
    ELSE LET sorted_df == reset_index(sorted.value)
             faculties == identify_faculty_columns(sorted_df, cgpa_field)
         IN  IF faculties.status # "ok"
                 THEN [status |-> faculties.status, processed |-> 0]
             ELSE allocate_rows(sorted_df, faculties.value, cgpa_field, 1, <<>>)

\* The results distribute_students may return: one per outcome of the sort.
distribute_students(table, cgpa_field) ==
    {distribute_sorted(sorted, cgpa_field) : sorted \in sort_values(table, cgpa_field)}

(* ------------------- summarize_faculty_preferences -------------------- *)

\* {fac: {i: 0 for i in range(1, len(faculties) + 1)} for fac in faculties}
zero_summary(faculties) ==
    [fac \in Range(faculties) |-> [i \in 1..Len(faculties) |-> 0]]

\* The rank taken as a 0-based position: rank r counted under r + 1.
tally_cell_zero_based(acc, fac, cell) ==
    LET rank == python_int(cell)
    IN  IF rank.status # "ok"
            THEN [acc EXCEPT !.warnings = Append(@, [fac |-> fac, cell |-> cell])]
        ELSE IF rank.value + 1 \in DOMAIN acc.summary[fac]
            THEN [acc EXCEPT !.summary[fac][rank.value + 1] = @ + 1]
        ELSE acc

\* One cell of the nested loop: count the rank, skip it, or warn.
tally_cell(acc, fac, cell) ==
    LET rank == python_int(cell)
    IN  IF rank.status # "ok"
            THEN [acc EXCEPT !.warnings = Append(@, [fac |-> fac, cell |-> cell])]
        ELSE IF rank.value \in DOMAIN acc.summary[fac]
            THEN [acc EXCEPT !.summary[fac][rank.value] = @ + 1]
        ELSE acc

\* The try around the whole row: a bad cell warns and ends its row.
RECURSIVE tally_rows_row_guard(_, _, _, _, _)
tally_rows_row_guard(table, faculties, i, j, acc) ==
    IF i > Len(table.rows) THEN acc
    ELSE IF j > Len(faculties) THEN tally_rows_row_guard(table, faculties, i + 1, 1, acc)
    ELSE LET cell == table.rows[i][faculties[j]]
             next == tally_cell(acc, faculties[j], cell)
         IN  IF python_int(cell).status # "ok"
                 THEN tally_rows_row_guard(table, faculties, i + 1, 1, next)
             ELSE tally_rows_row_guard(table, faculties, i, j + 1, next)

\* The nested loop, from row i and faculty j on.
RECURSIVE tally_rows(_, _, _, _, _)
tally_rows(table, faculties, i, j, acc) ==
    IF i > Len(table.rows) THEN acc
    ELSE IF j > Len(faculties) THEN tally_rows(table, faculties, i + 1, 1, acc)
    ELSE tally_rows(table, faculties, i, j + 1,
                    tally_cell(acc, faculties[j], table.rows[i][faculties[j]]))

\* pd.DataFrame(summary).T with the 'Pref i' columns and the Faculty column:
\* one row per faculty, in column order.
summary_frame(faculties, summary) ==
    [j \in 1..Len(faculties) |->
        [Faculty |-> faculties[j],
         Pref |-> [i \in 1..Len(faculties) |-> summary[faculties[j]][i]]]]

summarize_faculty_preferences(table, cgpa_field) ==
    LET faculties == identify_faculty_columns(table, cgpa_field)
    IN  IF faculties.status # "ok"
            THEN [status |-> faculties.status, processed |-> 0]
        ELSE LET acc == tally_rows(table, faculties.value, 1, 1,
                                   [summary |-> zero_summary(faculties.value),
                                    warnings |-> <<>>])
             IN  [status |-> "ok",
                  value |-> summary_frame(faculties.value, acc.summary),
                  warnings |-> acc.warnings,
                  processed |-> Len(table.rows)]

(* ----------------------------- the tables ----------------------------- *)

\* Roll, Name, Email, an optional further column, the reference column
\* unless it is missing, then F faculty columns.
Schema(hasRef, branch, F) ==
    <<"Roll", "Name", "Email">>
        \o (IF branch THEN <<"Branch">> ELSE <<>>)
        \o (IF hasRef THEN <<"CGPA">> ELSE <<>>)
        \o SubSeq(FacultyPool, 1, F)

\* Row i (1-based) of an uploaded table: cgpa its CGPA, ranks its rank cells.
Row(columns, i, cgpa, ranks) ==
    [c \in Range(columns) |->
        CASE c = "Roll" -> IntCell(100 + i)
          [] c = "Name" -> StrCell(<<110>>)
          [] c = "Email" -> StrCell(<<101>>)
          [] c = "Branch" -> StrCell(<<99, 115>>)
          [] c = "CGPA" -> IntCell(cgpa)
          [] OTHER -> ranks[c]]

\* pd.read_csv: the rows under a RangeIndex 0..N-1.
Table(columns, n, cgpa, ranks) ==
    [columns |-> columns,
     index |-> [i \in 1..n |-> i - 1],
     rows |-> [i \in 1..n |-> Row(columns, i, cgpa[i], ranks[i])]]

\* Row i ranks faculty c by rotation: a well-formed preference order.
RotatedRanks(F, i) ==
    [c \in Range(SubSeq(FacultyPool, 1, F)) |->
        IntCell(((get_loc(FacultyPool, c) + i) % F) + 1)]

(* --------------------------- the state machine ------------------------ *)

\* Any schema, any CGPAs; the rank cells are well formed.
Init ==
    /\ \E hasRef \in BOOLEAN, branch \in BOOLEAN, F \in 0..Len(FacultyPool),
          n \in 0..MaxRows :
          \E cgpa \in [1..n -> 1..MaxCGPA] :
              df = Table(Schema(hasRef, branch, F), n, cgpa,
                         [i \in 1..n |-> RotatedRanks(F, i)])
    /\ faculty_cols = NotCalled
    /\ allocation_df = NotCalled
    /\ summary_df = NotCalled

\* The contents an n-row rank column may have: n cells of one dtype.
ColumnContents(n) == UNION {[1..n -> cells] : cells \in RankColumnCells}

\* Any rank columns under the standard schema; row i has CGPA i.
InitPrefs ==
    /\ \E F \in PrefFaculties, n \in 0..MaxPrefRows :
          \E column \in [Range(SubSeq(FacultyPool, 1, F)) -> ColumnContents(n)] :
              df = Table(Schema(TRUE, FALSE, F), n, [i \in 1..n |-> i],
                         [i \in 1..n |->
                             [c \in Range(SubSeq(FacultyPool, 1, F)) |-> column[c][i]]])
    /\ faculty_cols = NotCalled
    /\ allocation_df = NotCalled
    /\ summary_df = NotCalled

IdentifyFacultyColumns ==
    /\ faculty_cols = NotCalled
    /\ faculty_cols' = identify_faculty_columns(df, "CGPA")
    /\ UNCHANGED <<df, allocation_df, summary_df>>

DistributeStudents ==
    /\ allocation_df = NotCalled
    /\ allocation_df' \in distribute_students(df, "CGPA")
    /\ UNCHANGED <<df, faculty_cols, summary_df>>

SummarizeFacultyPreferences ==
    /\ summary_df = NotCalled
    /\ summary_df' = summarize_faculty_preferences(df, "CGPA")
    /\ UNCHANGED <<df, faculty_cols, allocation_df>>

Next ==
    \/ IdentifyFacultyColumns
    \/ DistributeStudents
    \/ SummarizeFacultyPreferences

Spec == Init /\ [][Next]_vars

SpecPrefs == InitPrefs /\ [][Next]_vars

(* ------------------------- what the claims read ----------------------- *)

N == Len(df.rows)
HasRef == "CGPA" \in Range(df.columns)
RefPos == CHOOSE i \in 1..Len(df.columns) : df.columns[i] = "CGPA"
\* The columns strictly after CGPA, in schema order.
AfterRef == [k \in 1..(Len(df.columns) - RefPos) |-> df.columns[RefPos + k]]
F == Len(AfterRef)
Called(result) == result.status # "none"
Returned(result) == result.status = "ok"

RECURSIVE SumSeq(_)
SumSeq(s) == IF s = <<>> THEN 0 ELSE Head(s) + SumSeq(Tail(s))

\* The rows an allocation table gives to faculty f.
AssignedTo(table, f) == {i \in 1..Len(table) : table[i].AssignedFaculty = f}

\* The texts that write an integer, each with its integer, and the texts
\* that write none.
IntegerOfText ==
    {<<TxtOneNbsp, 1>>, <<TxtBlankTwo, 2>>, <<TxtMinusOne, -1>>, <<TxtFour, 4>>}
NotIntegerTexts == {TxtAbc, TxtOnePointFive}

\* The cell is the integer r: as an int, a whole float, or a text of it.
IsInteger(cell, r) ==
    \/ cell.kind = "int" /\ cell.num = r
    \/ cell.kind = "float" /\ cell.num = 10 * r
    \/ cell.kind = "str" /\ <<cell.text, r>> \in IntegerOfText

\* The cell is the integer r>=1, or a fraction between r and r+1.
CoercesTo(cell, r) ==
    \/ IsInteger(cell, r)
    \/ cell.kind = "float" /\ 10 * r <= cell.num /\ cell.num < 10 * r + 10

\* The cell is no number at all: missing, or text that is no integer.
Unparseable(cell) ==
    \/ cell.kind = "nan"
    \/ cell.kind = "str" /\ cell.text \in NotIntegerTexts

\* The cell is an integer outside 1..F.
OutOfRange(cell) ==
    /\ \/ cell.kind = "int"
       \/ cell.kind = "float" /\ cell.num % 10 = 0
       \/ cell.kind = "str" /\ \E p \in IntegerOfText : p[1] = cell.text
    /\ \A r \in 1..F : ~IsInteger(cell, r)

RowsWhere(fac, P(_)) == {i \in 1..N : P(df.rows[i][fac])}
WarningsFor(fac, cell) ==
    {k \in 1..Len(summary_df.warnings) :
        summary_df.warnings[k] = [fac |-> fac, cell |-> cell]}

(* ------------------------------- claims ------------------------------- *)

\* C1: for a table with N rows and F >= 1 faculty columns after CGPA,
\* distribute_students returns exactly N allocation records and every
\* faculty is assigned floor(N/F) or ceil(N/F) of them.
C1_BalancedAllocation ==
    (Called(allocation_df) /\ HasRef /\ F >= 1) =>
        /\ Returned(allocation_df)
        /\ Len(allocation_df.value) = N
        /\ \A f \in Range(AfterRef) :
              LET c == Cardinality(AssignedTo(allocation_df.value, f))
              IN  c = N \div F \/ c = (N + F - 1) \div F

C1_Witness ==
    /\ Returned(allocation_df) /\ HasRef /\ F = 3 /\ N = 4
    /\ Cardinality(AssignedTo(allocation_df.value, "A")) = 2
    /\ Cardinality(AssignedTo(allocation_df.value, "B")) = 1
    /\ Cardinality(AssignedTo(allocation_df.value, "C")) = 1

\* C2: the row at 0-based position i of the output is an input row and is
\* assigned the faculty at index i mod F of the columns after CGPA; CGPAs
\* 3, 1, 2 with faculties A, B come out as 3, 2, 1 with A, B, A.
C2_RoundRobinByPosition ==
    (Returned(allocation_df) /\ HasRef /\ F >= 1) =>
        /\ \A i \in 1..Len(allocation_df.value) :
              /\ allocation_df.value[i].AssignedFaculty = AfterRef[((i - 1) % F) + 1]
              /\ \E k \in 1..N :
                    /\ df.rows[k]["Roll"] = allocation_df.value[i].Roll
                    /\ df.rows[k]["CGPA"] = allocation_df.value[i].CGPA
        /\ ( /\ AfterRef = <<"A", "B">>
             /\ [i \in 1..N |-> df.rows[i]["CGPA"].num] = <<3, 1, 2>> )
           => /\ [i \in 1..3 |-> allocation_df.value[i].CGPA.num] = <<3, 2, 1>>
              /\ [i \in 1..3 |-> allocation_df.value[i].AssignedFaculty]
                    = <<"A", "B", "A">>

C2_Witness ==
    /\ Returned(allocation_df) /\ HasRef
    /\ AfterRef = <<"A", "B">>
    /\ [i \in 1..N |-> df.rows[i]["CGPA"].num] = <<3, 1, 2>>
    /\ [i \in 1..3 |-> allocation_df.value[i].Roll.num] = <<101, 103, 102>>

\* C3: rows of equal CGPA keep their input order in the output of
\* distribute_students (the sort is stable).
C3_StableTies ==
    Returned(allocation_df) =>
        \A i, j \in 1..Len(allocation_df.value) :
            (i < j /\ allocation_df.value[i].CGPA = allocation_df.value[j].CGPA)
                => allocation_df.value[i].Roll.num < allocation_df.value[j].Roll.num

\* C4: with CGPA the last column (no faculty columns) distribute_students
\* fails with a schema error of its own, for every row count, N = 0 too.
C4_ZeroFacultiesSchemaError ==
    (Called(allocation_df) /\ HasRef /\ F = 0) =>
        allocation_df.status = "SchemaError"

\* C5: without the CGPA column both distribute_students and
\* summarize_faculty_preferences fail with the missing-column error before
\* any row is processed, and return no table.
C5_MissingRefFails ==
    ~HasRef =>
        /\ Called(allocation_df) =>
              /\ allocation_df.status = "KeyError"
              /\ allocation_df.processed = 0
              /\ "value" \notin DOMAIN allocation_df
        /\ Called(summary_df) =>
              /\ summary_df.status = "KeyError"
              /\ summary_df.processed = 0
              /\ "value" \notin DOMAIN summary_df

C5_Witness ==
    /\ ~HasRef /\ N >= 2
    /\ allocation_df.status = "KeyError"
    /\ summary_df.status = "KeyError"

\* C6 as claimed: F rows in column order, and cell (f, r) is the number of
\* rows whose entry in column f is the integer r.
C6_ExactIntegerCounts ==
    (Called(summary_df) /\ HasRef /\ F >= 1) =>
        /\ Returned(summary_df)
        /\ Len(summary_df.value) = F
        /\ \A j \in 1..F :
              /\ summary_df.value[j].Faculty = AfterRef[j]
              /\ \A r \in 1..F :
                    summary_df.value[j].Pref[r] =
                        Cardinality(RowsWhere(AfterRef[j], LAMBDA c : IsInteger(c, r)))

\* C6 amended: F rows in column order, and cell (f, r) is the number of rows
\* whose entry in column f is the integer r or a fraction that truncates to
\* r; every count is >= 0 and a faculty's counts sum to at most N.
C6_CoercedCounts ==
    (Called(summary_df) /\ HasRef /\ F >= 1) =>
        /\ Returned(summary_df)
        /\ Len(summary_df.value) = F
        /\ \A j \in 1..F :
              /\ summary_df.value[j].Faculty = AfterRef[j]
              /\ Len(summary_df.value[j].Pref) = F
              /\ \A r \in 1..F :
                    /\ summary_df.value[j].Pref[r] =
                          Cardinality(RowsWhere(AfterRef[j], LAMBDA c : CoercesTo(c, r)))
                    /\ summary_df.value[j].Pref[r] >= 0
              /\ SumSeq(summary_df.value[j].Pref) <= N

C6_Witness ==
    /\ Returned(summary_df) /\ F = 2 /\ N = 2
    /\ df.rows[1]["A"] = FloatCell(15)
    /\ df.rows[2]["A"] = FloatCell(20)
    /\ summary_df.value[1].Pref = <<1, 1>>

\* C7: a rank cell that is no integer does not abort the summary: it is in
\* none of its faculty's counts, exactly one diagnostic is recorded for it,
\* and every integer cell in range is still counted.
C7_BadCellIsolated ==
    (Called(summary_df) /\ HasRef) =>
        /\ Returned(summary_df)
        /\ \A j \in 1..F :
              /\ SumSeq(summary_df.value[j].Pref)
                    <= N - Cardinality(RowsWhere(AfterRef[j], Unparseable))
              /\ \A r \in 1..F :
                    summary_df.value[j].Pref[r] >=
                        Cardinality(RowsWhere(AfterRef[j], LAMBDA c : IsInteger(c, r)))
              /\ \A cell \in {df.rows[i][AfterRef[j]] : i \in 1..N} :
                    Unparseable(cell) =>
                        Cardinality(WarningsFor(AfterRef[j], cell)) =
                            Cardinality(RowsWhere(AfterRef[j], LAMBDA c : c = cell))

C7_Witness ==
    /\ Returned(summary_df) /\ F = 2 /\ N = 2
    /\ df.rows[1]["A"] = StrCell(TxtAbc)
    /\ df.rows[1]["B"] = IntCell(2)
    /\ df.rows[2]["A"] = StrCell(TxtBlankTwo)
    /\ df.rows[2]["B"] = IntCell(0)
    /\ summary_df.warnings = <<[fac |-> "A", cell |-> StrCell(TxtAbc)]>>
    /\ summary_df.value[1].Pref = <<0, 1>>
    /\ summary_df.value[2].Pref = <<0, 1>>

\* C8: identify_faculty_columns returns exactly the columns strictly after
\* the reference column, in schema order, and the empty sequence when the
\* reference column is last.
C8_ColumnsAfterRef ==
    (Called(faculty_cols) /\ HasRef) =>
        /\ Returned(faculty_cols)
        /\ faculty_cols.value = AfterRef
        /\ RefPos = Len(df.columns) => faculty_cols.value = <<>>

C8_Witness ==
    /\ Returned(faculty_cols)
    /\ df.columns = <<"Roll", "Name", "Email", "Branch", "CGPA", "A", "B">>
    /\ faculty_cols.value = <<"A", "B">>

\* C9: in the table distribute_students returns, CGPA never increases with
\* the output position.
C9_DescendingCGPA ==
    Returned(allocation_df) =>
        \A i, j \in 1..Len(allocation_df.value) :
            i < j => allocation_df.value[i].CGPA.num >= allocation_df.value[j].CGPA.num

C9_Witness ==
    /\ Returned(allocation_df) /\ N = 3
    /\ [i \in 1..N |-> df.rows[i]["CGPA"].num] = <<1, 2, 3>>
    /\ [i \in 1..3 |-> allocation_df.value[i].Roll.num] = <<103, 102, 101>>

\* C10: an integer rank cell outside 1..F changes no counter and has a
\* diagnostic recorded for it, as an unparseable cell has.
C10_OutOfRangeDiagnosed ==
    (Returned(summary_df) /\ HasRef) =>
        \A j \in 1..F : \A i \in 1..N :
            OutOfRange(df.rows[i][AfterRef[j]]) =>
                /\ SumSeq(summary_df.value[j].Pref)
                      <= N - Cardinality(RowsWhere(AfterRef[j], OutOfRange))
                /\ WarningsFor(AfterRef[j], df.rows[i][AfterRef[j]]) # {}

====
